---- MODULE Spec2Model ----
(***************************************************************************)
(* rperf: the load-shape orchestrator (VirtualUserManager), the virtual    *)
(* user actor (VirtualUser) and the metrics they fold (Summary,            *)
(* RpsSummary, Metrics).                                                   *)
(*                                                                         *)
(* Scheduling.  src/main.rs runs the manager under #[tokio::main], the     *)
(* multi-threaded runtime: a spawned VU task is polled on a worker thread  *)
(* in parallel with the manager, so the steps of one poll of a task        *)
(* interleave with the manager's steps.  JoinHandle::abort only marks the  *)
(* task: a task that is suspended (never polled, or parked at an .await)   *)
(* is never polled again, a task in the middle of a poll runs on to its    *)
(* next suspension point or to its end.  A tokio Mutex lock() on a free    *)
(* mutex completes without suspending.  Every behaviour of the             *)
(* current-thread runtime of the #[tokio::test]s is one of these           *)
(* interleavings.                                                          *)
(*                                                                         *)
(* Time.  Instants are read where the code reads them; a read yields any   *)
(* value not before the previous read of the same component.               *)
(***************************************************************************)
EXTENDS Integers, Sequences, FiniteSets, TLC

\* ------------------------------------------------------------ bounds
MaxPlans == 2        \* plan segments added before run(), target answering
MaxPlansDown == 3    \* plan segments added before run(), target not answering
MaxDur == 2          \* longest segment duration, in tick intervals
MaxTarget == 2       \* largest segment target
MaxGraceful == 1     \* largest graceful_shutdown (0 = none)
MaxReq == 2          \* GETs one task issues under the manager, the warm-up one included
MaxReqUser == 4      \* GETs the task of a VirtualUser used directly issues
MaxLatency == 1      \* largest measured latency
MaxWindow == 0       \* highest RPS window index a task reaches
MaxDrift == 1        \* most time that passes between two reads of the clock
MaxDriftDown == 2    \* the same between two clock reads, target not answering
MaxClock == 3        \* last instant of the RpsSummary object's clock
MaxWindowSize == 2   \* largest window_size of the RpsSummary object
MaxIncrements == 3   \* increments on the RpsSummary object
MaxSamples == 3      \* values submitted to the Summary object
MaxSample == 2       \* largest ordinary sample, in absolute value
MaxHalfSeconds == 3  \* longest rps_window_size given to VirtualUser::new, in half seconds
MaxRecorded == 2     \* requests recorded in a Metrics given to merge_metrics
MaxMergedRequests == 3   \* merge_metrics is called while the destination holds fewer

\* ------------------------------------------------- program constants
F64_MAX == 1000000   \* stands for f64::MAX (f64::MIN is -f64::MAX)
TickInterval == 1    \* tick_interval, the unit of the manager's time
DefaultRpsWindow == 1   \* VirtualUserConfig::new: rps_window_size of 1 s

F64_MIN == 0 - F64_MAX
Statuses == {200, 500}
TransportErrors == {"connection refused"}
Outcomes == [ok : {TRUE}, status : Statuses] \cup [ok : {FALSE}, err : TransportErrors]
Latencies == 1..MaxLatency

\* What client.get(url).send() may resolve to, by how the target behaves:
\* it answers nothing in time, answers with a status, refuses the connection,
\* or any of these.
Answers(t) ==
    CASE t = "down" -> {}
      [] t = "ok" -> {o \in Outcomes : o.ok /\ o.status = 200}
      [] t = "refusing" -> {o \in Outcomes : ~o.ok}
      [] OTHER -> Outcomes

None == <<>>
Some(x) == <<x>>
IsSome(o) == o # <<>>
Unwrap(o) == o[1]

Min2(a, b) == IF a <= b THEN a ELSE b
Max2(a, b) == IF a >= b THEN a ELSE b

RECURSIVE SumSeq(_)
SumSeq(s) == IF s = <<>> THEN 0 ELSE Head(s) + SumSeq(Tail(s))

\* ------------------------------------------------------------ Summary
SummaryNew == [min |-> F64_MAX, max |-> F64_MIN, sum |-> 0, count |-> 0]

SummaryZeroed == [min |-> 0, max |-> 0, sum |-> 0, count |-> 0]

\* update without its line for max.
SummaryUpdateKeepsMax(s, value) ==
    [min |-> Min2(s.min, value), max |-> s.max,
     sum |-> s.sum + value, count |-> s.count + 1]

SummaryUpdate(s, value) ==
    [min |-> Min2(s.min, value), max |-> Max2(s.max, value),
     sum |-> s.sum + value, count |-> s.count + 1]

SummaryUpdateOptional(s, value) ==
    IF IsSome(value) THEN SummaryUpdate(s, Unwrap(value)) ELSE s

\* An average is the pair <<sum, count>> of the f64 division.
SummaryAverage(s) == IF s.count > 0 THEN Some(<<s.sum, s.count>>) ELSE None

SummaryMin(s) == IF s.count > 0 THEN Some(s.min) ELSE None

SummaryMax(s) == IF s.count > 0 THEN Some(s.max) ELSE None

\* --------------------------------------------------------- RpsSummary
RpsSummaryNew(window_size) ==
    [request_counts |-> <<>>, window_size |-> window_size, start_time |-> None]

RpsStart(r, now) == [r EXCEPT !.start_time = Some(now)]

\* The window index, were elapsed not divided by window_size.
WindowIndexOfUnitWindows(r, now) == now - Unwrap(r.start_time)

WindowIndex(r, now) == (now - Unwrap(r.start_time)) \div r.window_size

Resize(counts, n) ==
    [k \in 1..n |-> IF k <= Len(counts) THEN counts[k] ELSE 0]

RpsIncrementNoCheck(r, now) ==
    LET window_index == WindowIndex(r, now)
        grown == IF window_index >= Len(r.request_counts)
                 THEN Resize(r.request_counts, window_index + 1)
                 ELSE r.request_counts
    IN  [rps |-> [r EXCEPT !.request_counts =
                      [grown EXCEPT ![window_index + 1] = @ + 1]],
         res |-> [err |-> "Ok"]]

RpsIncrementRequestCount(r, now) ==
    IF ~IsSome(r.start_time)
    THEN [rps |-> r, res |-> [err |-> "NotStarted"]]
    ELSE RpsIncrementNoCheck(r, now)

\* A rate is the pair <<numerator, denominator>> of the f64 division.
RpsGetCurrentRps(r, now) ==
    IF ~IsSome(r.start_time) THEN [err |-> "NotStarted"]
    ELSE IF r.request_counts = <<>> THEN [err |-> "EmptyRequestCount"]
    ELSE IF WindowIndex(r, now) < Len(r.request_counts)
         THEN [err |-> "Ok",
               val |-> Some(<<r.request_counts[WindowIndex(r, now) + 1], r.window_size>>)]
         ELSE [err |-> "Ok", val |-> None]

RpsGetAverageRps(r, now) ==
    IF ~IsSome(r.start_time) THEN [err |-> "NotStarted"]
    ELSE IF r.request_counts = <<>> THEN [err |-> "EmptyRequestCount"]
    ELSE [err |-> "Ok",
          val |-> Some(<<SumSeq(r.request_counts), now - Unwrap(r.start_time)>>)]

\* get_all_rps with its two checks in the other order.
RpsGetAllRpsEmptyFirst(r) ==
    IF r.request_counts = <<>> THEN [err |-> "EmptyRequestCount"]
    ELSE IF ~IsSome(r.start_time) THEN [err |-> "NotStarted"]
    ELSE [err |-> "Ok",
          val |-> [k \in 1..Len(r.request_counts) |-> <<r.request_counts[k], r.window_size>>]]

RpsGetAllRps(r) ==
    IF ~IsSome(r.start_time) THEN [err |-> "NotStarted"]
    ELSE IF r.request_counts = <<>> THEN [err |-> "EmptyRequestCount"]
    ELSE [err |-> "Ok",
          val |-> [k \in 1..Len(r.request_counts) |-> <<r.request_counts[k], r.window_size>>]]

\* reset without request_counts.clear().
RpsResetKeepsCounts(r) == [r EXCEPT !.start_time = None]

RpsReset(r) == [r EXCEPT !.request_counts = <<>>, !.start_time = None]

\* ------------------------------------------------------------ Metrics
MetricsNew(rps_window_size) ==
    [total_latency |-> SummaryNew,
     tcp_connect_time |-> SummaryZeroed,
     tls_handshake_time |-> SummaryZeroed,
     http_request_time |-> SummaryNew,
     rps_summary |-> RpsSummaryNew(rps_window_size),
     total_errors |-> 0,
     error_rates_per_sec |-> SummaryNew,
     status_code_counts |-> <<>>,
     other_errors |-> <<>>]

\* #[derive(Default)] on RpsSummary: a zero window_size.
RpsSummaryDefault == [request_counts |-> <<>>, window_size |-> 0, start_time |-> None]

MetricsDefault == [MetricsNew(0) EXCEPT !.rps_summary = RpsSummaryDefault]

\* *map.entry(key).or_insert(0) += n, on a map kept as a function
EntryAdd(map, key, n) ==
    [k \in DOMAIN map \cup {key} |->
        (IF k \in DOMAIN map THEN map[k] ELSE 0) + (IF k = key THEN n ELSE 0)]

\* ------------------------------------------------------------- state
VARIABLES
    vus,                  \* every VirtualUser created, in creation order
    hpc,                  \* a direct user of one VirtualUser: its position
    mpc,                  \* VirtualUserManager::run: its position
    config,               \* VirtualUserManager.config
    plans,                \* VirtualUserManager.plans
    running_vus,          \* VirtualUserManager.running_vus (indices into vus)
    overall_metrics,      \* VirtualUserManager.overall_metrics
    current_count,        \* run: current_count
    plan_idx,             \* run: the segment the for loop is at
    segment_start_count,  \* run: segment_start_count
    elapsed,              \* run: the last value read from start_time.elapsed()
    delta_left,           \* run: iterations left of the loop that stops VUs
    ret,                  \* run: which loop the stop in progress belongs to
    cur,                  \* run: the VU popped and being stopped (0: none)
    server,               \* how the target server answers a GET while the run lasts
    rps,                  \* a free-standing RpsSummary
    rnow,                 \* its clock
    rlast,                \* the last call on it, what it returned, what went before
    sm,                   \* a free-standing Summary
    samples,              \* the values submitted to it, in order
    made                  \* the last call of VirtualUser::new and its outcome

vars == <<vus, server, hpc, mpc, config, plans, running_vus, overall_metrics, current_count,
          plan_idx, segment_start_count, elapsed, delta_left, ret, cur, rps, rnow, rlast,
          sm, samples, made>>

mgrVars == <<mpc, config, plans, running_vus, overall_metrics, current_count,
             plan_idx, segment_start_count, elapsed, delta_left, ret, cur>>

rpsVars == <<rps, rnow, rlast>>

objVars == <<sm, samples, made>>

\* What a step of a VU task or of VirtualUser::stop leaves alone.
notVU == <<server, hpc, mgrVars, rpsVars, objVars>>

\* -------------------------------------------------------- VirtualUser
\* Fields of the struct, then the watch channel, the task and its mutex:
\*   cancel   the value in the watch channel (what rx.borrow() reads)
\*   abort    JoinHandle::abort was called
\*   pc       where the task is
\*   resp     the response_result the task holds, latency its latency
\*   lock     who holds the Mutex<Metrics>: "free", or "task", "manager",
\*            "owner", "reader"
\*   sent     GET requests the task has issued
\*   spc      where a call of stop() on this VU is
VirtualUserNew(rps_window_size) ==
    [graceful_shutdown |-> 0,
     shutdown_tx |-> FALSE,
     join_handle |-> FALSE,
     metrics |-> MetricsNew(rps_window_size),
     cancel |-> FALSE, abort |-> FALSE, pc |-> "unspawned",
     resp |-> None, latency |-> None, lock |-> "free", sent |-> 0, spc |-> "none"]

\* VirtualUser::new with its check, on a Duration in milliseconds:
\* as_secs() is the whole seconds of the Duration.
VirtualUserTryNew(rps_window_size) ==
    IF rps_window_size \div 1000 = 0
    THEN [panic |-> TRUE]
    ELSE [panic |-> FALSE, vu |-> VirtualUserNew(rps_window_size)]

SetGracefulShutdown(v, graceful_shutdown) ==
    [v EXCEPT !.graceful_shutdown = graceful_shutdown]

VirtualUserStart(v) ==
    [v EXCEPT !.shutdown_tx = TRUE, !.cancel = FALSE, !.join_handle = TRUE, !.pc = "init"]

\* Where a task is parked, not being polled.
Suspended == {"init", "warm", "inflight", "start_wait", "got_wait", "rec2_wait"}

Finished == {"done", "aborted"}

\* The task's position after it reaches suspension point p.
Park(v, p) == IF v.abort THEN "aborted" ELSE p

\* JoinHandle::abort.
AbortTask(v) ==
    [v EXCEPT !.abort = TRUE, !.pc = IF @ \in Suspended THEN "aborted" ELSE @]

\* The instants a task may read at its next increment: the clock is monotonic,
\* so the window index is not below the last one it incremented.
TaskInstants(r) ==
    LET last == IF r.request_counts = <<>> THEN 0 ELSE Len(r.request_counts) - 1
    IN  {Unwrap(r.start_time) + k * r.window_size : k \in last..MaxWindow}

\* The GETs a task issues are bounded.
ReqLimit == IF hpc = "off" THEN MaxReq ELSE MaxReqUser

\* First poll: the GET sent before the loop.
TaskBegin(i) ==
    /\ vus[i].pc = "init"
    /\ vus[i].sent < ReqLimit
    /\ vus' = [vus EXCEPT ![i].sent = @ + 1, ![i].pc = Park(vus[i], "warm")]
    /\ UNCHANGED notVU

TaskWarmDone(i) ==
    /\ vus[i].pc = "warm"
    /\ Answers(server) # {}
    /\ vus' = [vus EXCEPT ![i].pc = "start"]
    /\ UNCHANGED notVU

\* { let mut m = metrics.lock().await; m.rps_summary.start(); }
TaskRpsStart(i) ==
    /\ vus[i].pc \in {"start", "start_wait"}
    /\ vus[i].lock = "free"
    /\ vus' = [vus EXCEPT ![i].metrics.rps_summary = RpsStart(@, 0),
                          ![i].lock = "task",
                          ![i].pc = "check"]
    /\ UNCHANGED notVU

\* The loop's head, were the guard m of the block before it still alive.
TaskCheckKeepsGuard(i) ==
    /\ vus[i].pc = "check"
    /\ IF vus[i].cancel
       THEN vus' = [vus EXCEPT ![i].pc = "done"]
       ELSE /\ vus[i].sent < ReqLimit
            /\ vus' = [vus EXCEPT ![i].sent = @ + 1,
                                  ![i].pc = Park(vus[i], "inflight")]
    /\ UNCHANGED notVU

\* if *rx.borrow() { break; } ... client.get(&url).send().await
TaskCheck(i) ==
    /\ vus[i].pc = "check"
    /\ vus[i].lock # "task"
    /\ IF vus[i].cancel
       THEN vus' = [vus EXCEPT ![i].pc = "done"]
       ELSE /\ vus[i].sent < ReqLimit
            /\ vus' = [vus EXCEPT ![i].sent = @ + 1,
                                  ![i].pc = Park(vus[i], "inflight")]
    /\ UNCHANGED notVU

TaskResponse(i) ==
    /\ vus[i].pc = "inflight"
    /\ \E o \in Answers(server), l \in Latencies :
          vus' = [vus EXCEPT ![i].resp = Some(o), ![i].latency = Some(l),
                             ![i].pc = "got"]
    /\ UNCHANGED notVU

RecordLatency(m, latency, now) ==
    [m EXCEPT !.total_latency = SummaryUpdate(@, latency),
              !.http_request_time = SummaryUpdate(@, latency),
              !.rps_summary = RpsIncrementRequestCount(@, now).rps]

TaskRecordLatency(i) ==
    /\ vus[i].pc \in {"got", "got_wait"}
    /\ vus[i].lock = "free"
    /\ \E now \in TaskInstants(vus[i].metrics.rps_summary) :
          vus' = [vus EXCEPT
                    ![i].metrics = RecordLatency(@, Unwrap(vus[i].latency), now),
                    ![i].latency = None,
                    ![i].lock = "task",
                    ![i].pc = "rec2"]
    /\ UNCHANGED notVU

\* The match on response_result, were a 5xx response counted as an error too.
RecordOutcomeServerErrors(m, o) ==
    IF o.ok
    THEN [m EXCEPT !.status_code_counts = EntryAdd(@, o.status, 1),
                   !.total_errors = IF o.status >= 500 THEN @ + 1 ELSE @]
    ELSE [m EXCEPT !.total_errors = @ + 1,
                   !.other_errors = Append(@, o.err)]

RecordOutcome(m, o) ==
    IF o.ok
    THEN [m EXCEPT !.status_code_counts = EntryAdd(@, o.status, 1)]
    ELSE [m EXCEPT !.total_errors = @ + 1,
                   !.other_errors = Append(@, o.err)]

TaskRecordOutcome(i) ==
    /\ vus[i].pc \in {"rec2", "rec2_wait"}
    /\ vus[i].lock = "free"
    /\ vus' = [vus EXCEPT ![i].metrics = RecordOutcome(@, Unwrap(vus[i].resp)),
                          ![i].resp = None,
                          ![i].lock = "task",
                          ![i].pc = "check"]
    /\ UNCHANGED notVU

\* The end of a block that holds the guard m: the guard is dropped.
TaskDropGuard(i) ==
    /\ vus[i].lock = "task"
    /\ vus' = [vus EXCEPT ![i].lock = "free"]
    /\ UNCHANGED notVU

\* metrics.lock().await on a held mutex: the task parks.
TaskBlock(i) ==
    /\ vus[i].pc \in {"start", "got", "rec2"}
    /\ vus[i].lock \notin {"free", "task"}
    /\ vus' = [vus EXCEPT ![i].pc =
                 Park(vus[i], CASE vus[i].pc = "start" -> "start_wait"
                                [] vus[i].pc = "got" -> "got_wait"
                                [] OTHER -> "rec2_wait")]
    /\ UNCHANGED notVU

\* ------------------------------------------------- VirtualUser::stop
\* if let Some(tx) = self.shutdown_tx.take() { let _ = tx.send(true); }
StopSignal(i) ==
    /\ vus[i].spc = "called"
    /\ vus' = [vus EXCEPT ![i].cancel = IF vus[i].shutdown_tx THEN TRUE ELSE @,
                          ![i].shutdown_tx = FALSE,
                          ![i].spc = "signalled"]
    /\ UNCHANGED notVU

\* stop(), were the select! entered whatever graceful_shutdown is.
StopTakeHandleAlwaysWaits(i) ==
    /\ vus[i].spc = "signalled"
    /\ vus' = [vus EXCEPT ![i] =
                 IF ~vus[i].join_handle
                 THEN [vus[i] EXCEPT !.spc = "returned"]
                 ELSE [vus[i] EXCEPT !.join_handle = FALSE, !.spc = "select"]]
    /\ UNCHANGED notVU

\* if let Some(mut handle) = self.join_handle.take() { ... }
StopTakeHandle(i) ==
    /\ vus[i].spc = "signalled"
    /\ vus' = [vus EXCEPT ![i] =
                 IF ~vus[i].join_handle
                 THEN [vus[i] EXCEPT !.spc = "returned"]
                 ELSE IF vus[i].graceful_shutdown > 0
                 THEN [vus[i] EXCEPT !.join_handle = FALSE, !.spc = "select"]
                 ELSE [AbortTask(vus[i]) EXCEPT !.join_handle = FALSE,
                                                !.spc = "returned"]]
    /\ UNCHANGED notVU

\* select!: _ = &mut handle => {}
StopJoined(i) ==
    /\ vus[i].spc = "select"
    /\ vus[i].pc \in Finished
    /\ vus' = [vus EXCEPT ![i].spc = "returned"]
    /\ UNCHANGED notVU

\* select!: _ = sleep(graceful_shutdown) => { handle.abort(); }
StopTimeout(i) ==
    /\ vus[i].spc = "select"
    /\ vus' = [vus EXCEPT ![i] = [AbortTask(vus[i]) EXCEPT !.spc = "returned"]]
    /\ UNCHANGED notVU

\* ------------------------------- a direct user of one VirtualUser
\* As the tests use it: new, set_graceful_shutdown, start, stop, and
\* metrics().lock() from outside at any time.
IdleManager ==
    /\ mpc = "off"
    /\ config = [rps_window_size |-> DefaultRpsWindow, graceful_shutdown |-> 0]
    /\ plans = <<>> /\ running_vus = <<>>
    /\ overall_metrics = MetricsDefault
    /\ current_count = 0 /\ plan_idx = 0 /\ segment_start_count = 0
    /\ elapsed = 0 /\ delta_left = 0 /\ ret = "none" /\ cur = 0

IdleObj == sm = SummaryNew /\ samples = <<>> /\ made = None

IdleRps ==
    /\ rps = RpsSummaryNew(1) /\ rnow = 0
    /\ rlast = [op |-> "new", res |-> [err |-> "Ok"], prev |-> "new", incs |-> 0, dropped |-> 0]

InitVU ==
    /\ \E g \in 0..MaxGraceful :
          vus = <<SetGracefulShutdown(VirtualUserNew(DefaultRpsWindow), g)>>
    /\ hpc = "fresh"
    /\ server = "any"
    /\ IdleManager
    /\ IdleRps
    /\ IdleObj

UserStart ==
    /\ hpc = "fresh"
    /\ vus' = [vus EXCEPT ![1] = VirtualUserStart(@)]
    /\ hpc' = "running"

UserStop ==
    /\ hpc = "running"
    /\ vus' = [vus EXCEPT ![1].spc = "called"]
    /\ hpc' = "stopping"

UserStopReturns ==
    /\ hpc = "stopping"
    /\ vus[1].spc = "returned"
    /\ hpc' = "stopped"
    /\ UNCHANGED vus

\* What run() does with a VU it stopped: let m = vu.metrics().lock().await
OwnerLock ==
    /\ hpc = "stopped"
    /\ vus[1].lock = "free"
    /\ vus' = [vus EXCEPT ![1].lock = "owner"]
    /\ hpc' = "locked"

\* m is dropped.
OwnerUnlock ==
    /\ hpc = "locked"
    /\ vus' = [vus EXCEPT ![1].lock = "free"]
    /\ hpc' = "merged"

ReaderLock ==
    /\ vus[1].lock = "free"
    /\ vus' = [vus EXCEPT ![1].lock = "reader"]
    /\ UNCHANGED hpc

ReaderUnlock ==
    /\ vus[1].lock = "reader"
    /\ vus' = [vus EXCEPT ![1].lock = "free"]
    /\ UNCHANGED hpc

NextVU ==
    \/ UserStart /\ UNCHANGED <<server, mgrVars, rpsVars, objVars>>
    \/ UserStop /\ UNCHANGED <<server, mgrVars, rpsVars, objVars>>
    \/ UserStopReturns /\ UNCHANGED <<server, mgrVars, rpsVars, objVars>>
    \/ OwnerLock /\ UNCHANGED <<server, mgrVars, rpsVars, objVars>>
    \/ OwnerUnlock /\ UNCHANGED <<server, mgrVars, rpsVars, objVars>>
    \/ ReaderLock /\ UNCHANGED <<server, mgrVars, rpsVars, objVars>>
    \/ ReaderUnlock /\ UNCHANGED <<server, mgrVars, rpsVars, objVars>>
    \/ \E i \in DOMAIN vus : TaskBegin(i)
    \/ \E i \in DOMAIN vus : TaskWarmDone(i)
    \/ \E i \in DOMAIN vus : TaskRpsStart(i)
    \/ \E i \in DOMAIN vus : TaskCheck(i)
    \/ \E i \in DOMAIN vus : TaskResponse(i)
    \/ \E i \in DOMAIN vus : TaskRecordLatency(i)
    \/ \E i \in DOMAIN vus : TaskRecordOutcome(i)
    \/ \E i \in DOMAIN vus : TaskBlock(i)
    \/ \E i \in DOMAIN vus : TaskDropGuard(i)
    \/ \E i \in DOMAIN vus : StopSignal(i)
    \/ \E i \in DOMAIN vus : StopTakeHandle(i)
    \/ \E i \in DOMAIN vus : StopJoined(i)
    \/ \E i \in DOMAIN vus : StopTimeout(i)

SpecVU == InitVU /\ [][NextVU]_vars

\* ------------------------------------------------- VirtualUserManager
\* merge_summary, were dest.min overwritten with src.min.
MergeSummaryTakesSourceMin(dest, src) ==
    [min |-> src.min, max |-> Max2(dest.max, src.max),
     sum |-> dest.sum + src.sum, count |-> dest.count + src.count]

MergeSummary(dest, src) ==
    [min |-> Min2(dest.min, src.min), max |-> Max2(dest.max, src.max),
     sum |-> dest.sum + src.sum, count |-> dest.count + src.count]

\* for (code, count) in &src.status_code_counts { *dest...entry(*code).or_insert(0) += count; }
MergeCounts(dest, src) ==
    [k \in DOMAIN dest \cup DOMAIN src |->
        (IF k \in DOMAIN dest THEN dest[k] ELSE 0) + (IF k \in DOMAIN src THEN src[k] ELSE 0)]

\* merge_metrics without its last line, the extend of other_errors.
MergeMetricsDropsErrorTexts(dest, src) ==
    [dest EXCEPT
        !.total_latency = MergeSummary(@, src.total_latency),
        !.tcp_connect_time = MergeSummary(@, src.tcp_connect_time),
        !.tls_handshake_time = MergeSummary(@, src.tls_handshake_time),
        !.http_request_time = MergeSummary(@, src.http_request_time),
        !.total_errors = @ + src.total_errors,
        !.error_rates_per_sec = MergeSummary(@, src.error_rates_per_sec),
        !.status_code_counts = MergeCounts(@, src.status_code_counts)]

\* merge_metrics, were the source's other_errors put before the destination's.
MergeMetricsPrepends(dest, src) ==
    [dest EXCEPT
        !.total_latency = MergeSummary(@, src.total_latency),
        !.tcp_connect_time = MergeSummary(@, src.tcp_connect_time),
        !.tls_handshake_time = MergeSummary(@, src.tls_handshake_time),
        !.http_request_time = MergeSummary(@, src.http_request_time),
        !.total_errors = @ + src.total_errors,
        !.error_rates_per_sec = MergeSummary(@, src.error_rates_per_sec),
        !.status_code_counts = MergeCounts(@, src.status_code_counts),
        !.other_errors = src.other_errors \o @]

MergeMetrics(dest, src) ==
    [dest EXCEPT
        !.total_latency = MergeSummary(@, src.total_latency),
        !.tcp_connect_time = MergeSummary(@, src.tcp_connect_time),
        !.tls_handshake_time = MergeSummary(@, src.tls_handshake_time),
        !.http_request_time = MergeSummary(@, src.http_request_time),
        !.total_errors = @ + src.total_errors,
        !.error_rates_per_sec = MergeSummary(@, src.error_rates_per_sec),
        !.status_code_counts = MergeCounts(@, src.status_code_counts),
        !.other_errors = @ \o src.other_errors]

\* add_plan(duration, target_count): an instantaneous segment or a ramp of
\* MaxDur tick intervals.
PlanSegments == [duration : {0, MaxDur}, target : 0..MaxTarget]

\* VirtualUserManager::new(config), config built by VirtualUserConfig::new
\* and its graceful_shutdown setter.
Init ==
    /\ \E g \in 0..MaxGraceful :
          config = [rps_window_size |-> DefaultRpsWindow, graceful_shutdown |-> g]
    /\ plans = <<>>
    /\ running_vus = <<>>
    /\ overall_metrics = MetricsDefault
    /\ mpc = "new"
    /\ vus = <<>>
    /\ server \in {"down", "ok", "refusing"}
    /\ current_count = 0 /\ plan_idx = 0 /\ segment_start_count = 0
    /\ elapsed = 0 /\ delta_left = 0 /\ ret = "none" /\ cur = 0
    /\ hpc = "off"
    /\ IdleRps
    /\ IdleObj

mgrFrame == <<server, hpc, rpsVars, objVars, config>>

AddPlan ==
    /\ mpc = "new"
    /\ Len(plans) < (IF server = "down" THEN MaxPlansDown ELSE MaxPlans)
    /\ \E seg \in PlanSegments : plans' = Append(plans, seg)
    /\ UNCHANGED <<vus, mpc, running_vus, overall_metrics, current_count, plan_idx,
                   segment_start_count, elapsed, delta_left, ret, cur, mgrFrame>>

\* let mut current_count = self.running_vus.len();
Run ==
    /\ mpc = "new"
    /\ mpc' = "for"
    /\ current_count' = Len(running_vus)
    /\ plan_idx' = 1
    /\ UNCHANGED <<vus, plans, running_vus, overall_metrics, segment_start_count,
                   elapsed, delta_left, ret, cur, mgrFrame>>

\* for plan in &self.plans { ...; let start_time = Instant::now();
ForPlan ==
    /\ mpc = "for"
    /\ IF plan_idx <= Len(plans)
       THEN /\ segment_start_count' = current_count
            /\ elapsed' = 0
            /\ mpc' = "while"
       ELSE /\ mpc' = "pop"
            /\ UNCHANGED <<segment_start_count, elapsed>>
    /\ ret' = IF plan_idx <= Len(plans) THEN "none" ELSE "drain"
    /\ UNCHANGED <<vus, plans, running_vus, overall_metrics, current_count, plan_idx,
                   delta_left, cur, mgrFrame>>

\* The values start_time.elapsed() may return now.
ElapsedReads ==
    elapsed..(elapsed + (IF server = "down" THEN MaxDriftDown ELSE MaxDrift))

\* while start_time.elapsed() < segment_duration {
WhileTest ==
    /\ mpc = "while"
    /\ \E e \in ElapsedReads :
          /\ elapsed' = e
          /\ mpc' = IF e < plans[plan_idx].duration THEN "tick" ELSE "fixup"
    /\ UNCHANGED <<vus, plans, running_vus, overall_metrics, current_count, plan_idx,
                   segment_start_count, delta_left, ret, cur, mgrFrame>>

\* diff, were ideal_count change * ratio alone.
DiffNumWithoutStart(start, target, count, e, duration) ==
    (0 - count) * duration + (target - start) * e

\* diff = segment_start_count + change * (elapsed / duration) - current_count,
\* kept as the fraction DiffNum / duration.
DiffNum(start, target, count, e, duration) ==
    (start - count) * duration + (target - start) * e

\* delta_int: floor of a diff >= 1, ceil of a diff <= -1, else 0.
DeltaInt(num, den) ==
    IF num >= den THEN num \div den
    ELSE IF num <= 0 - den THEN 0 - ((0 - num) \div den)
    ELSE 0

\* VirtualUser::new(..).set_graceful_shutdown(..); vu.start(); running_vus.push(vu)
Spawned(cfg) ==
    VirtualUserStart(SetGracefulShutdown(VirtualUserNew(cfg.rps_window_size),
                                         cfg.graceful_shutdown))

SpawnVUs(n) ==
    /\ vus' = vus \o [k \in 1..n |-> Spawned(config)]
    /\ running_vus' = running_vus \o [k \in 1..n |-> Len(vus) + k]
    /\ current_count' = current_count + n

\* One iteration of the while loop up to its match.
Tick ==
    /\ mpc = "tick"
    /\ \E e \in ElapsedReads :
          LET d == plans[plan_idx].duration
              delta_int == DeltaInt(DiffNum(segment_start_count, plans[plan_idx].target,
                                            current_count, e, d), d)
          IN  /\ elapsed' = e
              /\ IF delta_int > 0
                 THEN /\ SpawnVUs(delta_int)
                      /\ mpc' = "sleep"
                      /\ UNCHANGED <<delta_left, ret>>
                 ELSE IF delta_int < 0
                 THEN /\ delta_left' = 0 - delta_int
                      /\ ret' = "tick"
                      /\ mpc' = "pop"
                      /\ UNCHANGED <<vus, running_vus, current_count>>
                 ELSE /\ mpc' = "sleep"
                      /\ UNCHANGED <<vus, running_vus, current_count, delta_left, ret>>
    /\ UNCHANGED <<plans, overall_metrics, plan_idx, segment_start_count, cur, mgrFrame>>

\* sleep(tick_interval).await
Sleep ==
    /\ mpc = "sleep"
    /\ elapsed' = elapsed + TickInterval
    /\ mpc' = "while"
    /\ UNCHANGED <<vus, plans, running_vus, overall_metrics, current_count, plan_idx,
                   segment_start_count, delta_left, ret, cur, mgrFrame>>

\* The end of a segment without the loop that spawns.
FixupWithoutSpawn ==
    /\ mpc = "fixup"
    /\ ret' = "fixup"
    /\ mpc' = "pop"
    /\ UNCHANGED <<vus, running_vus, current_count, plans, overall_metrics, plan_idx,
                   segment_start_count, elapsed, delta_left, cur, mgrFrame>>

\* while current_count < target_count { spawn }, then on to the loop that stops
Fixup ==
    /\ mpc = "fixup"
    /\ IF current_count < plans[plan_idx].target
       THEN SpawnVUs(plans[plan_idx].target - current_count)
       ELSE UNCHANGED <<vus, running_vus, current_count>>
    /\ ret' = "fixup"
    /\ mpc' = "pop"
    /\ UNCHANGED <<plans, overall_metrics, plan_idx, segment_start_count, elapsed,
                   delta_left, cur, mgrFrame>>

\* The heads of the loops that stop VUs, were the drain to stop at one VU left.
MoreToStopLeavesOne ==
    CASE ret = "tick" -> delta_left > 0
      [] ret = "fixup" -> current_count > plans[plan_idx].target
      [] OTHER -> Len(running_vus) > 1

\* The head of each loop that stops VUs: its test, then self.running_vus.pop().
MoreToStop ==
    CASE ret = "tick" -> delta_left > 0
      [] ret = "fixup" -> current_count > plans[plan_idx].target
      [] OTHER -> running_vus # <<>>

\* running_vus.remove(0) in place of running_vus.pop().
PopSomeFirst ==
    /\ cur' = running_vus[1]
    /\ running_vus' = Tail(running_vus)
    /\ vus' = [vus EXCEPT ![running_vus[1]].spc = "called"]
    /\ mpc' = "stop"
    /\ UNCHANGED delta_left

PopSome ==
    /\ cur' = running_vus[Len(running_vus)]
    /\ running_vus' = SubSeq(running_vus, 1, Len(running_vus) - 1)
    /\ vus' = [vus EXCEPT ![running_vus[Len(running_vus)]].spc = "called"]
    /\ mpc' = "stop"
    /\ UNCHANGED delta_left

\* if let Some(mut vu) = self.running_vus.pop() { vu.stop() ...; on None the
\* iteration of the for loop does nothing.
Pop ==
    /\ mpc = "pop"
    /\ MoreToStop
    /\ IF running_vus # <<>>
       THEN PopSome
       ELSE /\ delta_left' = IF ret = "tick" THEN delta_left - 1 ELSE delta_left
            /\ UNCHANGED <<vus, running_vus, cur, mpc>>
    /\ UNCHANGED <<plans, overall_metrics, current_count, plan_idx, segment_start_count,
                   elapsed, ret, mgrFrame>>

\* The loop that stops VUs is over.
PopDone ==
    /\ mpc = "pop"
    /\ ~MoreToStop
    /\ mpc' = CASE ret = "tick" -> "sleep"
                [] ret = "fixup" -> "for"
                [] OTHER -> "done"
    /\ plan_idx' = IF ret = "fixup" THEN plan_idx + 1 ELSE plan_idx
    /\ ret' = "none"
    /\ UNCHANGED <<vus, plans, running_vus, overall_metrics, current_count,
                   segment_start_count, elapsed, delta_left, cur, mgrFrame>>

\* vu.stop().await has returned
StopReturned ==
    /\ mpc = "stop"
    /\ vus[cur].spc = "returned"
    /\ mpc' = "lock"
    /\ UNCHANGED <<vus, plans, running_vus, overall_metrics, current_count, plan_idx,
                   segment_start_count, elapsed, delta_left, ret, cur, mgrFrame>>

\* let m = metrics.lock().await;
LockMetrics ==
    /\ mpc = "lock"
    /\ vus[cur].lock = "free"
    /\ vus' = [vus EXCEPT ![cur].lock = "manager"]
    /\ mpc' = "merge"
    /\ UNCHANGED <<plans, running_vus, overall_metrics, current_count, plan_idx,
                   segment_start_count, elapsed, delta_left, ret, cur, mgrFrame>>

\* Self::merge_metrics(&mut self.overall_metrics, &m); current_count -= 1; m dropped
Merge ==
    /\ mpc = "merge"
    /\ overall_metrics' = MergeMetrics(overall_metrics, vus[cur].metrics)
    /\ vus' = [vus EXCEPT ![cur].lock = "free"]
    /\ current_count' = IF ret = "drain" THEN current_count ELSE current_count - 1
    /\ delta_left' = IF ret = "tick" THEN delta_left - 1 ELSE delta_left
    /\ cur' = 0
    /\ mpc' = "pop"
    /\ UNCHANGED <<plans, running_vus, plan_idx, segment_start_count, elapsed, ret,
                   mgrFrame>>

Next ==
    \/ AddPlan
    \/ Run
    \/ ForPlan
    \/ WhileTest
    \/ Tick
    \/ Sleep
    \/ Fixup
    \/ Pop
    \/ PopDone
    \/ StopReturned
    \/ LockMetrics
    \/ Merge
    \/ \E i \in DOMAIN vus : TaskBegin(i)
    \/ \E i \in DOMAIN vus : TaskWarmDone(i)
    \/ \E i \in DOMAIN vus : TaskRpsStart(i)
    \/ \E i \in DOMAIN vus : TaskCheck(i)
    \/ \E i \in DOMAIN vus : TaskResponse(i)
    \/ \E i \in DOMAIN vus : TaskRecordLatency(i)
    \/ \E i \in DOMAIN vus : TaskRecordOutcome(i)
    \/ \E i \in DOMAIN vus : TaskBlock(i)
    \/ \E i \in DOMAIN vus : TaskDropGuard(i)
    \/ \E i \in DOMAIN vus : StopSignal(i)
    \/ \E i \in DOMAIN vus : StopTakeHandle(i)
    \/ \E i \in DOMAIN vus : StopJoined(i)
    \/ \E i \in DOMAIN vus : StopTimeout(i)

Spec == Init /\ [][Next]_vars

\* ------------------------------------------- fairness for stop()
\* stop() runs to its end once called, and the sleep(graceful_shutdown) of
\* its select! elapses.  Nothing is assumed of the task or of the target.
StopFairness ==
    /\ WF_vars(StopSignal(1))
    /\ WF_vars(StopTakeHandle(1))
    /\ WF_vars(StopTimeout(1))

SpecVUFair == InitVU /\ [][NextVU]_vars /\ StopFairness

\* A party that holds the guard drops it; the tokio Mutex serves its waiters
\* first-in first-out, so the owner's lock() is not overtaken for ever.
LockFairness ==
    /\ WF_vars(TaskDropGuard(1))
    /\ WF_vars(ReaderUnlock /\ UNCHANGED <<server, mgrVars, rpsVars, objVars>>)
    /\ WF_vars(OwnerUnlock /\ UNCHANGED <<server, mgrVars, rpsVars, objVars>>)
    /\ SF_vars(OwnerLock /\ UNCHANGED <<server, mgrVars, rpsVars, objVars>>)

SpecVULock == InitVU /\ [][NextVU]_vars /\ StopFairness /\ LockFairness

\* ------------------------------------- a free-standing RpsSummary
\* RpsSummary::new(window_size), then any calls at any instants.
InitRps ==
    /\ \E w \in 1..MaxWindowSize : rps = RpsSummaryNew(w)
    /\ rnow = 0
    /\ rlast = [op |-> "new", res |-> [err |-> "Ok"], prev |-> "new", incs |-> 0, dropped |-> 0]
    /\ vus = <<>> /\ hpc = "off" /\ server = "down"
    /\ IdleManager
    /\ IdleObj

rpsFrame == <<vus, hpc, server, mgrVars, objVars>>

\* What is remembered of a call: the call, its result, the call before it, the
\* increments that succeeded since new or the last reset, and the increments
\* the last reset cleared.
Called(op, res) ==
    [op |-> op, res |-> res, prev |-> rlast.op,
     incs |-> CASE op = "reset" -> 0
                [] op = "increment" /\ res.err = "Ok" -> rlast.incs + 1
                [] OTHER -> rlast.incs,
     dropped |-> IF op = "reset" THEN rlast.incs ELSE rlast.dropped]

RpsClock ==
    /\ rnow < MaxClock
    /\ rnow' = rnow + 1
    /\ UNCHANGED <<rps, rlast, rpsFrame>>

RpsCallStart ==
    /\ rps' = RpsStart(rps, rnow)
    /\ rlast' = Called("start", [err |-> "Ok"])
    /\ UNCHANGED <<rnow, rpsFrame>>

RpsCallIncrement ==
    /\ SumSeq(rps.request_counts) < MaxIncrements
    /\ rps' = RpsIncrementRequestCount(rps, rnow).rps
    /\ rlast' = Called("increment", RpsIncrementRequestCount(rps, rnow).res)
    /\ UNCHANGED <<rnow, rpsFrame>>

RpsCallGetCurrent ==
    /\ rlast' = Called("get_current", RpsGetCurrentRps(rps, rnow))
    /\ UNCHANGED <<rps, rnow, rpsFrame>>

RpsCallGetAverage ==
    /\ rlast' = Called("get_average", RpsGetAverageRps(rps, rnow))
    /\ UNCHANGED <<rps, rnow, rpsFrame>>

RpsCallGetAll ==
    /\ rlast' = Called("get_all", RpsGetAllRps(rps))
    /\ UNCHANGED <<rps, rnow, rpsFrame>>

RpsCallReset ==
    /\ rps' = RpsReset(rps)
    /\ rlast' = Called("reset", [err |-> "Ok"])
    /\ UNCHANGED <<rnow, rpsFrame>>

NextRps ==
    \/ RpsClock
    \/ RpsCallStart
    \/ RpsCallIncrement
    \/ RpsCallGetCurrent
    \/ RpsCallGetAverage
    \/ RpsCallGetAll
    \/ RpsCallReset

SpecRps == InitRps /\ [][NextRps]_vars

\* ------------------------- a Summary and VirtualUser::new used directly
\* The samples: ordinary values of both signs, and the two finite extremes.
Samples == ((0 - MaxSample)..MaxSample) \cup {F64_MIN, F64_MAX}

InitObj ==
    /\ IdleObj
    /\ IdleRps
    /\ vus = <<>> /\ hpc = "off" /\ server = "down"
    /\ IdleManager

objFrame == <<vus, hpc, server, mgrVars, rpsVars>>

SummaryCallUpdate ==
    /\ Len(samples) < MaxSamples
    /\ \E value \in Samples :
          /\ sm' = SummaryUpdate(sm, value)
          /\ samples' = Append(samples, Some(value))
    /\ UNCHANGED <<made, objFrame>>

SummaryCallUpdateOptional ==
    /\ Len(samples) < MaxSamples
    /\ \E value \in {None} \cup {Some(v) : v \in Samples} :
          /\ sm' = SummaryUpdateOptional(sm, value)
          /\ samples' = Append(samples, value)
    /\ UNCHANGED <<made, objFrame>>

\* VirtualUser::new(url, Duration::from_millis(500 * k))
CallVirtualUserNew ==
    /\ \E k \in 0..MaxHalfSeconds :
          made' = Some([arg |-> 500 * k, res |-> VirtualUserTryNew(500 * k)])
    /\ UNCHANGED <<sm, samples, objFrame>>

NextObj ==
    \/ SummaryCallUpdate
    \/ SummaryCallUpdateOptional
    \/ CallVirtualUserNew

SpecObj == InitObj /\ [][NextObj]_vars

\* ------------------------------------------- merge_metrics used directly
\* The sources: the Metrics of a VU that recorded up to MaxRecorded requests,
\* each answered with a status or failed with one of two transport errors.
MergeOutcomes == Outcomes \cup [ok : {FALSE}, err : {"operation timed out"}]

RECURSIVE RecordAll(_, _)
RecordAll(m, reqs) ==
    IF reqs = <<>> THEN m
    ELSE RecordAll(RecordOutcome(RecordLatency(m, Head(reqs).latency, 0), Head(reqs).o),
                   Tail(reqs))

SourceMetrics ==
    LET started == [MetricsNew(DefaultRpsWindow) EXCEPT !.rps_summary = RpsStart(@, 0)]
        Reqs == [o : MergeOutcomes, latency : Latencies]
    IN  {RecordAll(started, reqs) : reqs \in UNION {[1..n -> Reqs] : n \in 0..MaxRecorded}}

InitMerge ==
    /\ vus = <<VirtualUserNew(DefaultRpsWindow)>>
    /\ hpc = "pick"
    /\ server = "down"
    /\ IdleManager
    /\ IdleRps
    /\ IdleObj

mergeFrame == <<server, mpc, config, plans, running_vus, current_count, plan_idx,
                segment_start_count, elapsed, delta_left, ret, cur, rpsVars, objVars>>

\* A VU whose Metrics are to be merged.
MergePick ==
    /\ hpc = "pick"
    /\ overall_metrics.http_request_time.count < MaxMergedRequests
    /\ \E src \in SourceMetrics : vus' = [vus EXCEPT ![1].metrics = src]
    /\ hpc' = "merge"
    /\ UNCHANGED <<overall_metrics, mergeFrame>>

\* Self::merge_metrics(&mut self.overall_metrics, &m)
MergeCall ==
    /\ hpc = "merge"
    /\ overall_metrics' = MergeMetrics(overall_metrics, vus[1].metrics)
    /\ hpc' = "pick"
    /\ UNCHANGED <<vus, mergeFrame>>

NextMerge ==
    \/ MergePick
    \/ MergeCall

SpecMerge == InitMerge /\ [][NextMerge]_vars

\* ====================================================== properties
\* C1: for every list of plan segments, the empty one included, when
\* VirtualUserManager::run has returned the pool running_vus is empty and
\* stop() has been called, and has returned, on every VU spawned during the run.
C1_PoolEmptyAfterRun ==
    mpc = "done" =>
        /\ running_vus = <<>>
        /\ \A i \in DOMAIN vus : vus[i].spc = "returned"

\* run has returned after spawning two VUs or more.
C1_Witness == mpc = "done" /\ plans # <<>> /\ Len(vus) >= 2

\* C2: after run has returned, overall_metrics.http_request_time.count is the
\* sum of http_request_time.count over all the VUs spawned during the run.
C2_OverallCountIsSum ==
    mpc = "done" =>
        overall_metrics.http_request_time.count =
            SumSeq([i \in DOMAIN vus |-> vus[i].metrics.http_request_time.count])

\* C3: when a plan segment is over (its fixup done, the next segment not yet
\* begun) the number of live VUs, and current_count, equal the segment's target;
\* a segment of duration zero runs no iteration of the tick loop, so all its
\* spawns and stops are those of the fixup.
C3_SegmentEndsOnTarget ==
    /\ (mpc = "for" /\ plan_idx > 1) =>
          /\ Len(running_vus) = plans[plan_idx - 1].target
          /\ current_count = plans[plan_idx - 1].target
    /\ (plan_idx \in DOMAIN plans /\ plans[plan_idx].duration = 0) =>
          /\ mpc \notin {"tick", "sleep"}
          /\ ret # "tick"

\* A segment of duration zero that took the pool from two VUs down to one is over.
C3_Witness ==
    /\ mpc = "for" /\ plan_idx = 3
    /\ plans[1].target = 2
    /\ plans[2] = [duration |-> 0, target |-> 1]

\* C4: once stop() has returned on a VU, no step changes that VU's Metrics.
C4_NoMutationAfterStop ==
    [][\A i \in DOMAIN vus :
          vus[i].spc = "returned" => vus'[i].metrics = vus[i].metrics]_vars

\* C5: stop() on a running VU returns; with graceful_shutdown = 0 it never waits
\* and, having taken the handle, aborts and returns at once, wherever the task
\* is; with graceful_shutdown > 0 the task is aborted only by the timeout branch
\* of the select!, on which stop() returns.
C5_StopReturns ==
    /\ (hpc = "stopping") ~> (vus[1].spc = "returned")
    /\ [](\A i \in DOMAIN vus : vus[i].graceful_shutdown = 0 => vus[i].spc # "select")
    /\ [][\A i \in DOMAIN vus :
            /\ (/\ vus[i].graceful_shutdown = 0
                /\ vus[i].spc = "signalled" /\ vus[i].join_handle
                /\ vus'[i].spc # vus[i].spc)
               => (vus'[i].spc = "returned" /\ vus'[i].abort)
            /\ (vus[i].graceful_shutdown > 0 /\ ~vus[i].abort /\ vus'[i].abort)
               => (vus[i].spc = "select" /\ vus'[i].spc = "returned")]_vars

\* stop() with graceful_shutdown > 0 has returned on a task that ended by
\* itself, not aborted.
C5_Witness ==
    /\ hpc = "stopped"
    /\ vus[1].graceful_shutdown > 0
    /\ vus[1].pc = "done" /\ ~vus[1].abort

\* C6: once stop() has published the cancellation, the VU task issues no
\* new request.
C6_NoRequestAfterCancel ==
    [][\A i \in DOMAIN vus : vus[i].cancel => vus'[i].sent = vus[i].sent]_vars

\* C7, as amended: the VU the manager stops, in a tick, a fixup or the drain,
\* is the most recently spawned of the live ones, and the live pool is kept in
\* spawn order.
C7_Lifo ==
    /\ [](\A j, k \in DOMAIN running_vus : j < k => running_vus[j] < running_vus[k])
    /\ [][(mpc = "pop" /\ mpc' = "stop") =>
            /\ \A k \in DOMAIN running_vus : running_vus[k] <= cur'
            /\ \E k \in DOMAIN running_vus : running_vus[k] = cur'
            /\ \A k \in DOMAIN running_vus' : running_vus'[k] = running_vus[k]
            /\ Len(running_vus') = Len(running_vus) - 1]_vars

\* The manager stops VU 3 while VU 1, older, stays live and VU 2 is gone.
C7_Witness == mpc = "stop" /\ cur = 3 /\ running_vus = <<1>>

\* C7, as stated: at every moment the live pool is a prefix of the spawn order.
C7_LivePoolIsPrefix == running_vus = [k \in 1..Len(running_vus) |-> k]

\* C8: the Metrics of every VU, and overall_metrics after any number of merges,
\* have total_errors equal to the length of other_errors.
C8_ErrorsCounted ==
    /\ \A i \in DOMAIN vus :
          vus[i].metrics.total_errors = Len(vus[i].metrics.other_errors)
    /\ overall_metrics.total_errors = Len(overall_metrics.other_errors)

\* Two VUs that each recorded a transport error have been merged.
C8_Witness == overall_metrics.total_errors = 2 /\ mpc = "done"

\* C9: the step that records the outcome of a request either, for a response
\* of any status, adds one to status_code_counts[status] and leaves total_errors
\* and other_errors alone, or, for a transport error, adds one to total_errors,
\* appends one entry to other_errors and leaves status_code_counts alone, and no
\* other step of the VU touches the three; having recorded, the task is back at
\* the head of its loop, which it leaves, when not cancelled, only by issuing
\* the next request.
C9_OutcomeRecorded ==
    [][\A i \in DOMAIN vus :
          LET m == vus[i].metrics
              n == vus'[i].metrics
              o == Unwrap(vus[i].resp)
          IN  /\ IF vus[i].pc \in {"rec2", "rec2_wait"} /\ vus'[i].pc = "check"
                 THEN IF o.ok
                      THEN /\ DOMAIN n.status_code_counts =
                                 DOMAIN m.status_code_counts \cup {o.status}
                           /\ \A k \in DOMAIN n.status_code_counts :
                                 n.status_code_counts[k] =
                                    (IF k \in DOMAIN m.status_code_counts
                                     THEN m.status_code_counts[k] ELSE 0)
                                    + (IF k = o.status THEN 1 ELSE 0)
                           /\ n.total_errors = m.total_errors
                           /\ n.other_errors = m.other_errors
                      ELSE /\ n.total_errors = m.total_errors + 1
                           /\ n.other_errors = Append(m.other_errors, o.err)
                           /\ n.status_code_counts = m.status_code_counts
                 ELSE /\ n.status_code_counts = m.status_code_counts
                      /\ n.total_errors = m.total_errors
                      /\ n.other_errors = m.other_errors
              /\ (vus[i].pc = "check" /\ ~vus[i].cancel /\ vus'[i].pc # "check") =>
                    /\ vus'[i].sent = vus[i].sent + 1
                    /\ vus'[i].pc \in {"inflight", "aborted"}]_vars

\* A task that recorded a 500 and a transport error has its next request in flight.
C9_Witness ==
    /\ 500 \in DOMAIN vus[1].metrics.status_code_counts
    /\ vus[1].metrics.total_errors = 1
    /\ vus[1].pc = "inflight" /\ vus[1].sent = 4

\* C10: on an RpsSummary that is not started, fresh or reset,
\* increment_request_count, get_current_rps, get_average_rps and get_all_rps
\* return NotStarted and leave request_counts and start_time as they were.
C10_NotStarted ==
    [][(/\ ~IsSome(rps.start_time)
        /\ rlast'.op \in {"increment", "get_current", "get_average", "get_all"})
       => (rlast'.res = [err |-> "NotStarted"] /\ rps' = rps)]_vars

\* increment_request_count has failed with NotStarted right after a reset.
C10_Witness ==
    /\ rlast.op = "increment" /\ rlast.prev = "reset"
    /\ rlast.res = [err |-> "NotStarted"]
    /\ rnow > 0

\* C11: on a started RpsSummary an increment at elapsed e adds one to the
\* counter at index floor(e / window_size) and to no other, the counters it has
\* to create on the way are zero, and the counters sum to the number of
\* increments that succeeded.
C11_IncrementLandsInWindow ==
    /\ [](SumSeq(rps.request_counts) = rlast.incs)
    /\ [][rlast'.incs = rlast.incs + 1 =>
            LET e == rnow - Unwrap(rps.start_time)
                idx == e \div rps.window_size
                old == rps.request_counts
                new == rps'.request_counts
            IN  /\ IsSome(rps.start_time)
                /\ Len(new) = Max2(Len(old), idx + 1)
                /\ \A k \in 1..Len(new) :
                      new[k] = (IF k <= Len(old) THEN old[k] ELSE 0)
                               + (IF k = idx + 1 THEN 1 ELSE 0)]_vars

\* Windows of two seconds: after two increments at elapsed 3 the first window,
\* skipped, is a zero entry and the second holds both.
C11_Witness ==
    /\ rps.window_size = 2
    /\ rps.request_counts = <<0, 2>>
    /\ rps.start_time = Some(0) /\ rnow = 3
    /\ rlast.op = "increment"

\* C12: reset leaves, from any state, no counter and no start_time; from then
\* on, started again or not, earlier counts are gone: while no increment has
\* succeeded since the reset the three reads of a started summary return
\* EmptyRequestCount, as they do on a summary fresh from new and started.
C12_ResetRestores ==
    /\ [](rlast.op = "reset" => rps = RpsSummaryNew(rps.window_size))
    /\ []((rlast.op = "start" /\ rlast.incs = 0) =>
             \E t \in 0..rnow : rps = RpsStart(RpsSummaryNew(rps.window_size), t))
    /\ []((/\ rlast.op \in {"get_current", "get_average", "get_all"}
           /\ IsSome(rps.start_time) /\ rlast.incs = 0)
          => rlast.res = [err |-> "EmptyRequestCount"])

\* A summary that counted, was reset and started again answers a read with
\* EmptyRequestCount.
C12_Witness ==
    /\ rlast.dropped > 0 /\ rlast.incs = 0
    /\ IsSome(rps.start_time)
    /\ rlast.op = "get_average"
    /\ rlast.res = [err |-> "EmptyRequestCount"]

\* C13: after any updates and update_optionals on a Summary from new(), count is
\* the number of present samples, sum their sum, min() and max() the smallest
\* and the largest of them, average() sum over count; the three return absent
\* exactly when count is 0; update_optional of an absent value changes nothing.
C13_SummaryOfSamples ==
    /\ [](LET present == SelectSeq(samples, IsSome)
              vals == {present[k][1] : k \in 1..Len(present)}
              total == SumSeq([k \in 1..Len(present) |-> present[k][1]])
          IN  /\ sm.count = Len(present)
              /\ sm.sum = total
              /\ SummaryMin(sm) =
                    IF vals = {} THEN None
                    ELSE Some(CHOOSE v \in vals : \A w \in vals : v <= w)
              /\ SummaryMax(sm) =
                    IF vals = {} THEN None
                    ELSE Some(CHOOSE v \in vals : \A w \in vals : v >= w)
              /\ SummaryAverage(sm) =
                    IF vals = {} THEN None ELSE Some(<<total, Len(present)>>)
              /\ (sm.count = 0) <=> (SummaryMin(sm) = None)
              /\ (sm.count = 0) <=> (SummaryMax(sm) = None)
              /\ (sm.count = 0) <=> (SummaryAverage(sm) = None))
    /\ [][samples' = Append(samples, None) => sm' = sm]_vars

\* A present value, an absent one, then a smaller present value.
C13_Witness ==
    /\ Len(samples) = 3 /\ samples[2] = None
    /\ IsSome(samples[1]) /\ IsSome(samples[3])
    /\ samples[3][1] < samples[1][1]
    /\ sm.count = 2

\* C14: VirtualUser::new fails exactly when rps_window_size is zero; for every
\* positive rps_window_size it yields a VU with graceful_shutdown = 0, no
\* shutdown signal and no task handle.
C14_RejectsOnlyZero ==
    IsSome(made) =>
        LET call == Unwrap(made)
        IN  /\ call.res.panic <=> (call.arg = 0)
            /\ ~call.res.panic =>
                  /\ call.res.vu.graceful_shutdown = 0
                  /\ ~call.res.vu.shutdown_tx
                  /\ ~call.res.vu.join_handle

\* C15: merge_metrics adds the source's total_errors and its count of every
\* status to the destination's, adds count and sum of each of the five
\* Summaries, appends the source's other_errors, in order, after the
\* destination's, and changes neither the destination's rps_summary nor the
\* source.
C15_MergeFrame ==
    [][(hpc = "merge" /\ hpc' = "pick") =>
          LET dest == overall_metrics
              src == vus[1].metrics
              new == overall_metrics'
              Added(f) == /\ new[f].count = dest[f].count + src[f].count
                          /\ new[f].sum = dest[f].sum + src[f].sum
          IN  /\ new.total_errors = dest.total_errors + src.total_errors
              /\ DOMAIN new.status_code_counts =
                    DOMAIN dest.status_code_counts \cup DOMAIN src.status_code_counts
              /\ \A k \in DOMAIN new.status_code_counts :
                    new.status_code_counts[k] =
                       (IF k \in DOMAIN dest.status_code_counts
                        THEN dest.status_code_counts[k] ELSE 0)
                       + (IF k \in DOMAIN src.status_code_counts
                          THEN src.status_code_counts[k] ELSE 0)
              /\ \A f \in {"total_latency", "tcp_connect_time", "tls_handshake_time",
                           "http_request_time", "error_rates_per_sec"} : Added(f)
              /\ Len(new.other_errors) = Len(dest.other_errors) + Len(src.other_errors)
              /\ \A k \in 1..Len(new.other_errors) :
                    new.other_errors[k] =
                       IF k <= Len(dest.other_errors) THEN dest.other_errors[k]
                       ELSE src.other_errors[k - Len(dest.other_errors)]
              /\ new.rps_summary = dest.rps_summary
              /\ vus'[1].metrics = src]_vars

\* A source with a 200 and a time-out has been merged into a destination that
\* already held a 200 and a refused connection.
C15_Witness ==
    /\ hpc = "pick"
    /\ overall_metrics.other_errors = <<"connection refused", "operation timed out">>
    /\ 200 \in DOMAIN overall_metrics.status_code_counts
    /\ overall_metrics.status_code_counts[200] = 2
    /\ vus[1].metrics.other_errors = <<"operation timed out">>
    /\ overall_metrics.rps_summary = RpsSummaryDefault

\* C16: when the manager merges the Metrics of a VU on which no request was
\* ever recorded (a Metrics::new whose rps_summary may have been started), every
\* field of overall_metrics, and what min(), max() and average() of each of
\* its Summaries return, is the same after the merge as before.
C16_EmptyMergeIsIdentity ==
    [][(/\ mpc = "merge" /\ mpc' = "pop"
        /\ [vus[cur].metrics EXCEPT !.rps_summary = RpsSummaryNew(config.rps_window_size)]
              = MetricsNew(config.rps_window_size)) =>
          /\ overall_metrics' = overall_metrics
          /\ \A f \in {"total_latency", "tcp_connect_time", "tls_handshake_time",
                       "http_request_time", "error_rates_per_sec"} :
                /\ SummaryMin(overall_metrics'[f]) = SummaryMin(overall_metrics[f])
                /\ SummaryMax(overall_metrics'[f]) = SummaryMax(overall_metrics[f])
                /\ SummaryAverage(overall_metrics'[f]) = SummaryAverage(overall_metrics[f])]_vars

\* Of two VUs stopped last-first, the second recorded a request and the first,
\* merged after it, never did.
C16_Witness ==
    /\ mpc = "done"
    /\ Len(vus) = 2
    /\ vus[1].metrics.total_latency.count = 0
    /\ vus[1].metrics.total_errors = 0
    /\ overall_metrics.total_latency.count > 0
    /\ SummaryMin(overall_metrics.total_latency) = Some(1)

\* C17: when a tick's adjustment is over (its spawns made, or its stop loop
\* ended, or nothing done), the live count differs from the ideal count
\* computed at that tick by less than 1 and has not crossed it: a tick with
\* diff >= 1 spawned floor(diff) VUs, a tick with diff <= -1 stopped
\* floor(-diff) VUs, a tick with -1 < diff < 1 did neither.
C17_TickConverges ==
    [][(mpc' = "sleep" /\ mpc \in {"tick", "pop"}) =>
          LET d == plans[plan_idx].duration
              Diff(count) == DiffNum(segment_start_count, plans[plan_idx].target,
                                     count, elapsed', d)
              before == Diff(current_count)
              after == Diff(Len(running_vus'))
          IN  /\ 0 - d < after /\ after < d
              /\ (mpc = "tick" /\ before >= d) =>
                    /\ Len(running_vus') - Len(running_vus) = before \div d
                    /\ after >= 0
              /\ (mpc = "tick" /\ before < d) => running_vus' = running_vus
              /\ mpc = "pop" => after <= 0]_vars

\* C18: in a plan segment whose target equals the number of VUs live at its
\* entry, the manager spawns no VU and stops no VU, in the tick loop and in
\* the fixup, so running_vus and overall_metrics are unchanged by it.
C18_FlatSegmentIsFrame ==
    [][(/\ mpc \in {"while", "tick", "sleep", "fixup", "pop"}
        /\ ret # "drain"
        /\ plan_idx \in 1..Len(plans)
        /\ plans[plan_idx].target = segment_start_count) =>
          /\ running_vus' = running_vus
          /\ overall_metrics' = overall_metrics
          /\ Len(vus') = Len(vus)
          /\ current_count' = current_count
          /\ mpc' \in {"while", "tick", "sleep", "fixup", "pop", "for"}]_vars

\* The tick loop of a two-tick segment that keeps one VU has ended after a
\* tick that read the clock past the segment's end.
C18_Witness ==
    /\ mpc = "fixup"
    /\ plan_idx = 2
    /\ plans[2] = [duration |-> MaxDur, target |-> 1]
    /\ segment_start_count = 1
    /\ running_vus = <<1>>
    /\ elapsed > MaxDur

\* C19: the task writes a VU's Metrics only under a guard it took on the free
\* Mutex, and holds no guard at a suspension point (a request in flight, a
\* wait for the Mutex) or after its end; a guard held by the task or by the
\* owner is dropped, and the lock() the owner calls once stop() has returned
\* is granted, the task aborted or not.
C19_LockDiscipline ==
    /\ [](\A i \in DOMAIN vus :
             vus[i].lock = "task" => vus[i].pc \notin Suspended \cup Finished)
    /\ [][\A i \in DOMAIN vus :
             vus'[i].metrics # vus[i].metrics =>
                vus[i].lock = "free" /\ vus'[i].lock = "task"]_vars
    /\ (hpc = "stopped") ~> (hpc = "locked")
    /\ (vus[1].lock \in {"task", "owner"}) ~> (vus[1].lock = "free")

\* The owner holds the Mutex of a VU whose task recorded a request and was
\* aborted by stop().
C19_Witness ==
    /\ hpc = "locked"
    /\ vus[1].lock = "owner"
    /\ vus[1].pc = "aborted"
    /\ vus[1].metrics.total_latency.count > 0

RECURSIVE SumCounts(_, _)
SumCounts(counts, codes) ==
    IF codes = {} THEN 0
    ELSE LET k == CHOOSE c \in codes : TRUE
         IN  counts[k] + SumCounts(counts, codes \ {k})

\* C20: once stop() has returned and the task is over, the VU's Metrics count
\* every request whole: http_request_time.count = total_latency.count, and
\* both equal the sum of status_code_counts plus total_errors.
C20_AllOrNothing ==
    (vus[1].spc = "returned" /\ vus[1].pc \in Finished) =>
        LET m == vus[1].metrics
        IN  /\ m.http_request_time.count = m.total_latency.count
            /\ m.total_latency.count =
                  SumCounts(m.status_code_counts, DOMAIN m.status_code_counts)
                  + m.total_errors

\* C21: during the tick loop of a segment the live VU count stays between the
\* segment's start count and its target, inclusive, and moves only toward the
\* target: no VU is stopped in a segment with target >= start count, none is
\* spawned in a segment with target <= start count.
C21_StaysWithinSegment ==
    /\ []((/\ mpc \in {"while", "tick", "sleep"} \/ (mpc \in {"pop", "stop", "lock", "merge"}
                                                     /\ ret = "tick")
           /\ plan_idx \in 1..Len(plans)) =>
             /\ Min2(segment_start_count, plans[plan_idx].target) <= Len(running_vus)
             /\ Len(running_vus) <= Max2(segment_start_count, plans[plan_idx].target))
    /\ [][(mpc = "tick" /\ plan_idx \in 1..Len(plans)) =>
             /\ plans[plan_idx].target >= segment_start_count => mpc' # "pop"
             /\ plans[plan_idx].target <= segment_start_count => Len(vus') = Len(vus)]_vars

\* C22: a VU's task issues no request before it has started rps_summary, and
\* the requests it has sent never exceed http_request_time.count by more than
\* one, the request in flight or interrupted.
C22_MeasuresEveryRequest ==
    \A i \in DOMAIN vus :
       /\ ~IsSome(vus[i].metrics.rps_summary.start_time) => vus[i].sent = 0
       /\ vus[i].sent <= vus[i].metrics.http_request_time.count + 1

====
